---- MODULE Spec2Model ----
(***************************************************************************)
(* Model of the Telegram expense bot (api/index.py): the webhook endpoint, *)
(* the four handlers registered on the shared Application, the per-user     *)
(* context.user_data store and the Google Sheets writer.                    *)
(*                                                                          *)
(* Strings are sequences of one-character strings, so that strip, split,   *)
(* replace, float, capitalize and str are computed as Python computes them.*)
(* Scope: calls to the Telegram Bot API (reply_text, answer,                *)
(* edit_message_text, get_me) are recorded as outbound effects and do not   *)
(* fail; calls to Google Sheets fail nondeterministically.                  *)
(* main.py registers the same four handlers for local polling; where its    *)
(* code differs from api/index.py the model follows api/index.py.           *)
(* The variable last records what the last request was given, what it found *)
(* and what it did, so that properties of one request are state predicates. *)
(* Spec serves one request at a time. SpecConcurrente serves MaxRequests    *)
(* requests on one event loop: each awaited call of telegram_webhook is a   *)
(* step, and the steps of different requests interleave.                    *)
(***************************************************************************)
EXTENDS Integers, Sequences, FiniteSets, TLC

VARIABLES
    TOKEN,                    \* os.environ.get("TELEGRAM_TOKEN"): None or a token
    GOOGLE_CREDENTIALS_JSON,  \* os.environ.get("GOOGLE_CREDENTIALS_JSON")
    application,              \* the module-level Application, or the import error
    user_data,                \* application.user_data: user id -> dict
    sheet,                    \* rows of "Mis Gastos Personales".sheet1
    last,                     \* observation of the last webhook request
    requests                  \* the webhook requests being served at once

vars ==
    <<TOKEN, GOOGLE_CREDENTIALS_JSON, application, user_data, sheet, last,
      requests>>

None == "None"

\* ---------------------------------------------------------------- bounds
MaxRows == 1

\* how many requests the event loop serves at once
MaxRequests == 2

\* ------------------------------------------------------- Python strings
Whitespace == {" ", "\t", "\n"}

Digits == {"0", "1", "2", "3", "4", "5", "6", "7", "8", "9"}

DigitVal(c) ==
    CASE c = "0" -> 0 [] c = "1" -> 1 [] c = "2" -> 2 [] c = "3" -> 3
      [] c = "4" -> 4 [] c = "5" -> 5 [] c = "6" -> 6 [] c = "7" -> 7
      [] c = "8" -> 8 [] c = "9" -> 9

DigitChar(d) ==
    CASE d = 0 -> "0" [] d = 1 -> "1" [] d = 2 -> "2" [] d = 3 -> "3"
      [] d = 4 -> "4" [] d = 5 -> "5" [] d = 6 -> "6" [] d = 7 -> "7"
      [] d = 8 -> "8" [] d = 9 -> "9"

LowerLetters ==
    <<"a", "b", "c", "d", "e", "f", "g", "h", "i", "j", "k", "l", "m",
      "n", "o", "p", "q", "r", "s", "t", "u", "v", "w", "x", "y", "z">>

UpperLetters ==
    <<"A", "B", "C", "D", "E", "F", "G", "H", "I", "J", "K", "L", "M",
      "N", "O", "P", "Q", "R", "S", "T", "U", "V", "W", "X", "Y", "Z">>

\* str.upper() of one character ("U+00F3" o-acute maps to "U+00D3")
Upper(c) ==
    IF \E i \in 1..26 : LowerLetters[i] = c
    THEN UpperLetters[CHOOSE i \in 1..26 : LowerLetters[i] = c]
    ELSE IF c = "U+00F3" THEN "U+00D3" ELSE c

\* str.lower() of one character
Lower(c) ==
    IF \E i \in 1..26 : UpperLetters[i] = c
    THEN LowerLetters[CHOOSE i \in 1..26 : UpperLetters[i] = c]
    ELSE IF c = "U+00D3" THEN "U+00F3" ELSE c

\* str.capitalize(): first character upper-cased, the rest lower-cased
capitalize(s) ==
    [i \in 1..Len(s) |-> IF i = 1 THEN Upper(s[i]) ELSE Lower(s[i])]

RECURSIVE lstrip(_)
lstrip(s) ==
    IF s # <<>> /\ Head(s) \in Whitespace THEN lstrip(Tail(s)) ELSE s

RECURSIVE rstrip(_)
rstrip(s) ==
    IF s # <<>> /\ s[Len(s)] \in Whitespace
    THEN rstrip(SubSeq(s, 1, Len(s) - 1)) ELSE s

\* str.strip()
strip(s) == rstrip(lstrip(s))

\* index of the first occurrence of the character sep in s, 0 when absent
Find(s, sep) ==
    IF \E i \in 1..Len(s) : s[i] = sep
    THEN CHOOSE i \in 1..Len(s) :
            /\ s[i] = sep
            /\ \A j \in 1..(i - 1) : s[j] # sep
    ELSE 0

\* str.split(sep, 1) for a one-character separator: at most two parts
split_at(s, i) ==
    IF i = 0 THEN <<s>>
    ELSE <<SubSeq(s, 1, i - 1), SubSeq(s, i + 1, Len(s))>>

split1(s, sep) == split_at(s, Find(s, sep))

\* replace that replaces nothing
replace_nada(s, old, new) == s

\* str.replace(old, new) for one-character old and new
replace(s, old, new) ==
    [i \in 1..Len(s) |-> IF s[i] = old THEN new ELSE s[i]]

RECURSIVE DigitsToInt(_)
DigitsToInt(s) ==
    IF s = <<>> THEN 0
    ELSE 10 * DigitsToInt(SubSeq(s, 1, Len(s) - 1)) + DigitVal(s[Len(s)])

\* a decimal number m / 10^e in lowest decimal form
RECURSIVE Normal(_, _)
Normal(m, e) ==
    IF e > 0 /\ m % 10 = 0 THEN Normal(m \div 10, e - 1)
    ELSE [m |-> m, e |-> e]

\* the value of the sign sgn and the unsigned decimal literal u
float_literal(sgn, u, p) ==
    LET ip == IF p = 0 THEN u ELSE SubSeq(u, 1, p - 1)
        fp == IF p = 0 THEN <<>> ELSE SubSeq(u, p + 1, Len(u))
        ok == /\ \A i \in 1..Len(ip) : ip[i] \in Digits
              /\ \A i \in 1..Len(fp) : fp[i] \in Digits
              /\ Len(ip) + Len(fp) > 0
        mag == Normal(DigitsToInt(ip \o fp), Len(fp))
    IN  IF ~ok THEN [raised |-> "ValueError", value |-> [m |-> 0, e |-> 0]]
        ELSE [raised |-> "none",
              value  |-> [m |-> IF sgn = "-" THEN 0 - mag.m ELSE mag.m,
                          e |-> mag.e]]

float_stripped(t) ==
    IF t # <<>> /\ Head(t) \in {"+", "-"}
    THEN float_literal(Head(t), Tail(t), Find(Tail(t), "."))
    ELSE float_literal("+", t, Find(t, "."))

\* float(s): surrounding whitespace is ignored, then an optional sign and a
\* decimal literal with at most one point and at least one digit.  (Exponents,
\* underscores, inf and nan need characters outside the model's alphabet.)
\* raised is "ValueError" when s is not such a literal.
float(s) == float_stripped(strip(s))

\* str(n) for a non-negative integer
RECURSIVE str(_)
str(n) ==
    IF n < 10 THEN <<DigitChar(n)>>
    ELSE str(n \div 10) \o <<DigitChar(n % 10)>>

\* s.startswith(prefix)
StartsWith(s, prefix) ==
    /\ Len(s) >= Len(prefix)
    /\ SubSeq(s, 1, Len(prefix)) = prefix

\* ------------------------------------------------------------- catalog
K_alimentacion == <<"a", "l", "i", "m", "e", "n", "t", "a", "c", "i", "o", "n">>
K_vivienda == <<"v", "i", "v", "i", "e", "n", "d", "a">>
K_transporte == <<"t", "r", "a", "n", "s", "p", "o", "r", "t", "e">>
K_salud == <<"s", "a", "l", "u", "d">>
K_entretenimiento ==
    <<"e", "n", "t", "r", "e", "t", "e", "n", "i", "m", "i", "e", "n", "t", "o">>
K_ropa == <<"r", "o", "p", "a">>
K_otros == <<"o", "t", "r", "o", "s">>

\* the dict CATEGORIAS in insertion order: <<key, label>>; an emoji or an
\* accented letter is one character, written by its code point
CATEGORIAS ==
    << <<K_alimentacion,
         <<"U+1F966", " ", "A", "l", "i", "m", "e", "n", "t", "a", "c", "i",
           "U+00F3", "n">> >>,
       <<K_vivienda,
         <<"U+1F3E0", " ", "V", "i", "v", "i", "e", "n", "d", "a">> >>,
       <<K_transporte,
         <<"U+1F697", " ", "T", "r", "a", "n", "s", "p", "o", "r", "t", "e">> >>,
       <<K_salud,
         <<"U+1F3E5", " ", "S", "a", "l", "u", "d">> >>,
       <<K_entretenimiento,
         <<"U+1F3AE", " ", "E", "n", "t", "r", "e", "t", "e", "n", "i", "m",
           "i", "e", "n", "t", "o">> >>,
       <<K_ropa,
         <<"U+1F455", " ", "R", "o", "p", "a">> >>,
       <<K_otros,
         <<"U+1F4DD", " ", "O", "t", "r", "o", "s">> >> >>

\* key in CATEGORIAS
CATEGORIAS_has(key) == \E i \in 1..Len(CATEGORIAS) : CATEGORIAS[i][1] = key

\* CATEGORIAS[key]; raises KeyError when the key is absent
CATEGORIAS_get(key) ==
    IF CATEGORIAS_has(key)
    THEN [raised |-> "none",
          value  |-> CATEGORIAS[CHOOSE i \in 1..Len(CATEGORIAS) :
                                    CATEGORIAS[i][1] = key][2]]
    ELSE [raised |-> "KeyError", value |-> <<>>]

\* ------------------------------------------------- dicts and datetimes
EmptyDict == [k \in {} |-> <<>>]

\* d[k] = v on a dict d
DictSet(d, k, v) == [x \in DOMAIN d \cup {k} |-> IF x = k THEN v ELSE d[x]]

\* zero-padded decimal of width w (strftime fields)
RECURSIVE zpad(_, _)
zpad(s, w) == IF Len(s) >= w THEN s ELSE zpad(<<"0">> \o s, w)

\* now.strftime("%Y-%m-%d")
strftime_date(now) ==
    zpad(str(now.Y), 4) \o <<"-">> \o zpad(str(now.M), 2) \o <<"-">>
        \o zpad(str(now.D), 2)

\* now.strftime("%Y-%m-%d %H:%M:%S")
strftime_datetime(now) ==
    strftime_date(now) \o <<" ">> \o zpad(str(now.h), 2) \o <<":">>
        \o zpad(str(now.mi), 2) \o <<":">> \o zpad(str(now.s), 2)

\* -------------------------------------------------------- Google Sheets
\* The first external step of one guardar_gasto_en_sheets call that raises, or
\* "none": "open" is client.open (from_json_keyfile_dict and gspread.authorize
\* sit in the same try block and fail the same way), "append_row" the row write.
Failures == {"none", "open", "append_row"}

\* the body of conectar_a_sheets' try block: the sheet, None, or an exception
conectar_try(creds_json, fail) ==
    IF creds_json = None THEN [raised |-> "none", value |-> None]
    ELSE IF creds_json = "malformed"
         THEN [raised |-> "JSONDecodeError", value |-> None]
    ELSE IF fail = "open"
         THEN [raised |-> "SpreadsheetNotFound", value |-> None]
    ELSE [raised |-> "none", value |-> "sheet1"]

\* conectar_a_sheets with its except clause left out
conectar_sin_except(creds_json, fail) == conectar_try(creds_json, fail)

\* conectar_a_sheets(): except Exception -> None
conectar_a_sheets(creds_json, fail) ==
    IF conectar_try(creds_json, fail).raised # "none"
    THEN [raised |-> "none", value |-> None]
    ELSE conectar_try(creds_json, fail)

\* the row built by guardar_gasto_en_sheets
fila(user_id, categoria, monto, descripcion, now) ==
    << str(user_id),
       strftime_datetime(now),
       strftime_date(now),
       monto,
       capitalize(categoria),
       descripcion >>

\* append_row called again after it raised
guardar_try_reintenta(rows, row, fail) ==
    IF fail = "append_row"
    THEN [raised |-> "APIError", value |-> FALSE, sheet |-> rows,
          append_calls |-> 2]
    ELSE [raised |-> "none", value |-> TRUE, sheet |-> Append(rows, row),
          append_calls |-> 1]

\* sheet.append_row(fila) and return True, or the exception append_row raises
guardar_try(rows, row, fail) ==
    IF fail = "append_row"
    THEN [raised |-> "APIError", value |-> FALSE, sheet |-> rows,
          append_calls |-> 1]
    ELSE [raised |-> "none", value |-> TRUE, sheet |-> Append(rows, row),
          append_calls |-> 1]

\* guardar_gasto_en_sheets' try block: except Exception -> False
guardar_except(w) ==
    IF w.raised # "none" THEN [w EXCEPT !.raised = "none", !.value = FALSE]
    ELSE w

\* guardar_gasto_en_sheets after sheet = conectar_a_sheets()
guardar_con_sheet(c, rows, user_id, categoria, monto, descripcion, now, fail) ==
    IF c.raised # "none"
    THEN [raised |-> c.raised, value |-> FALSE, sheet |-> rows,
          append_calls |-> 0]
    ELSE IF c.value = None
    THEN [raised |-> "none", value |-> FALSE, sheet |-> rows,
          append_calls |-> 0]
    ELSE guardar_except(
             guardar_try(rows,
                         fila(user_id, categoria, monto, descripcion, now),
                         fail))

\* guardar_gasto_en_sheets(user_id, categoria, monto, descripcion): the value
\* returned (or the exception raised), the rows of the sheet afterwards, and
\* how many times append_row was called
guardar_gasto_en_sheets(creds_json, rows, user_id, categoria, monto, descripcion, now, fail) ==
    guardar_con_sheet(conectar_a_sheets(creds_json, fail), rows, user_id,
                      categoria, monto, descripcion, now, fail)

\* ------------------------------------------------------------- handlers
NoAmount == [m |-> 0, e |-> 0]

\* one call of the Bot API made by a handler: the method, the chat and the
\* text, the text given by the source literal it is built from and the
\* values interpolated into it
Effect(method, chat, template, categoria, monto, descripcion, reply_markup) ==
    [method |-> method, chat |-> chat, template |-> template,
     categoria |-> categoria, monto |-> monto, descripcion |-> descripcion,
     reply_markup |-> reply_markup]

reply_text(chat, template) ==
    Effect("sendMessage", chat, template, <<>>, NoAmount, <<>>, <<>>)

\* what a handler leaves behind: the user's dict, the sheet, the Bot API
\* calls made, the calls of guardar_gasto_en_sheets, the exception raised
Outcome(ud, rows, sent, gateway, raised) ==
    [user_data |-> ud, sheet |-> rows, sent |-> sent, gateway |-> gateway,
     raised |-> raised]

\* start
start(ud, rows, update) ==
    Outcome(ud, rows, <<reply_text(update.chat, "hola")>>, <<>>, "none")

CallbackPrefix == <<"c", "a", "t", "e", "g", "o", "r", "i", "a", "_">>

\* InlineKeyboardButton(value, callback_data=f"categoria_{key}")
InlineKeyboardButton(item) ==
    [text |-> item[2], callback_data |-> CallbackPrefix \o item[1]]

\* the loop of nuevo_gasto without the "if row:" after it
RECURSIVE keyboard_loop_sin_resto(_, _, _)
keyboard_loop_sin_resto(i, keyboard, row) ==
    IF i > Len(CATEGORIAS)
    THEN keyboard
    ELSE LET row1 == Append(row, InlineKeyboardButton(CATEGORIAS[i]))
         IN  IF Len(row1) = 2
             THEN keyboard_loop_sin_resto(i + 1, Append(keyboard, row1), <<>>)
             ELSE keyboard_loop_sin_resto(i + 1, keyboard, row1)

\* the loop of nuevo_gasto over CATEGORIAS.items() from item i on
RECURSIVE keyboard_loop(_, _, _)
keyboard_loop(i, keyboard, row) ==
    IF i > Len(CATEGORIAS)
    THEN IF row # <<>> THEN Append(keyboard, row) ELSE keyboard
    ELSE LET row1 == Append(row, InlineKeyboardButton(CATEGORIAS[i]))
         IN  IF Len(row1) = 2
             THEN keyboard_loop(i + 1, Append(keyboard, row1), <<>>)
             ELSE keyboard_loop(i + 1, keyboard, row1)

\* nuevo_gasto that starts the conversation over
nuevo_gasto_reinicia(ud, rows, update) ==
    Outcome(EmptyDict, rows,
            <<Effect("sendMessage", update.chat, "selecciona_categoria",
                     <<>>, NoAmount, <<>>, keyboard_loop(1, <<>>, <<>>))>>,
            <<>>, "none")

\* nuevo_gasto
nuevo_gasto(ud, rows, update) ==
    Outcome(ud, rows,
            <<Effect("sendMessage", update.chat, "selecciona_categoria",
                     <<>>, NoAmount, <<>>, keyboard_loop(1, <<>>, <<>>))>>,
            <<>>, "none")

\* seleccionar_categoria after context.user_data["categoria"] = ...: the
\* label lookup and the prompt edit
seleccionar_texto(ud1, rows, update, label) ==
    IF label.raised # "none"
    THEN Outcome(ud1, rows,
                 <<Effect("answerCallbackQuery", update.chat, "", <<>>,
                          NoAmount, <<>>, <<>>)>>,
                 <<>>, label.raised)
    ELSE Outcome(ud1, rows,
                 <<Effect("answerCallbackQuery", update.chat, "", <<>>,
                          NoAmount, <<>>, <<>>),
                   Effect("editMessageText", update.chat, "categoria_elegida",
                          label.value, NoAmount, <<>>, <<>>)>>,
                 <<>>, "none")

\* seleccionar_categoria with setdefault in place of the assignment
seleccionar_primera(ud, rows, update, categoria_seleccionada) ==
    seleccionar_texto(IF "categoria" \in DOMAIN ud THEN ud
                      ELSE DictSet(ud, "categoria", categoria_seleccionada),
                      rows, update, CATEGORIAS_get(categoria_seleccionada))

seleccionar_guardada(ud, rows, update, categoria_seleccionada) ==
    seleccionar_texto(DictSet(ud, "categoria", categoria_seleccionada), rows,
                      update, CATEGORIAS_get(categoria_seleccionada))

\* seleccionar_categoria: the key is stored before its label is looked up
seleccionar_categoria(ud, rows, update) ==
    seleccionar_guardada(ud, rows, update, split1(update.text, "_")[2])

SinDescripcion ==
    <<"S", "i", "n", " ", "d", "e", "s", "c", "r", "i", "p", "c", "i",
      "U+00F3", "n">>

\* the record of one call of guardar_gasto_en_sheets
GatewayCall(rows, user_id, categoria, monto, descripcion, fail, g) ==
    [user_id |-> user_id, categoria |-> categoria, monto |-> monto,
     descripcion |-> descripcion, fail |-> fail, raised |-> g.raised,
     value |-> g.value, append_calls |-> g.append_calls,
     wrote |-> Len(g.sheet) > Len(rows)]

\* except (ValueError, IndexError): json.JSONDecodeError is a ValueError
IsCaught(exc) == exc \in {"ValueError", "JSONDecodeError", "IndexError"}

\* procesar_mensaje_gasto from "if exito:" on
procesar_respuesta(ud, update, monto, descripcion, g, call, label) ==
    IF IsCaught(g.raised)
    THEN Outcome(ud, g.sheet, <<reply_text(update.chat, "error_de_formato")>>,
                 <<call>>, "none")
    ELSE IF g.raised # "none"
    THEN Outcome(ud, g.sheet, <<>>, <<call>>, g.raised)
    ELSE IF g.value /\ label.raised # "none"
    THEN Outcome(ud, g.sheet, <<>>, <<call>>, label.raised)
    ELSE IF g.value
    THEN Outcome(EmptyDict, g.sheet,
                 <<Effect("sendMessage", update.chat, "gasto_registrado",
                          label.value, monto, descripcion, <<>>)>>,
                 <<call>>, "none")
    ELSE Outcome(EmptyDict, g.sheet,
                 <<reply_text(update.chat, "error_al_guardar")>>,
                 <<call>>, "none")

procesar_exito(ud, rows, update, monto, descripcion, fail, g) ==
    procesar_respuesta(ud, update, monto, descripcion, g,
                       GatewayCall(rows, update.user, ud["categoria"], monto,
                                   descripcion, fail, g),
                       CATEGORIAS_get(ud["categoria"]))

\* procesar_monto going on to the gateway whatever float() did
procesar_monto_sin_validar(ud, rows, update, creds_json, now, fail, monto, descripcion) ==
    procesar_exito(ud, rows, update, monto.value, descripcion, fail,
                   guardar_gasto_en_sheets(creds_json, rows, update.user,
                                           ud["categoria"], monto.value,
                                           descripcion, now, fail))

\* procesar_monto with context.user_data.clear() also on the format error
procesar_monto_olvida(ud, rows, update, creds_json, now, fail, monto, descripcion) ==
    IF IsCaught(monto.raised)
    THEN Outcome(EmptyDict, rows,
                 <<reply_text(update.chat, "error_de_formato")>>, <<>>, "none")
    ELSE procesar_exito(ud, rows, update, monto.value, descripcion, fail,
                        guardar_gasto_en_sheets(creds_json, rows, update.user,
                                                ud["categoria"], monto.value,
                                                descripcion, now, fail))

\* procesar_mensaje_gasto after monto = float(...)
procesar_monto(ud, rows, update, creds_json, now, fail, monto, descripcion) ==
    IF IsCaught(monto.raised)
    THEN Outcome(ud, rows, <<reply_text(update.chat, "error_de_formato")>>,
                 <<>>, "none")
    ELSE procesar_exito(ud, rows, update, monto.value, descripcion, fail,
                        guardar_gasto_en_sheets(creds_json, rows, update.user,
                                                ud["categoria"], monto.value,
                                                descripcion, now, fail))

\* procesar_mensaje_gasto after partes = texto_mensaje.split(" ", 1)
procesar_partes(ud, rows, update, creds_json, now, fail, partes) ==
    procesar_monto(ud, rows, update, creds_json, now, fail,
                   float(replace(partes[1], ",", ".")),
                   IF Len(partes) > 1 THEN partes[2] ELSE SinDescripcion)

\* procesar_mensaje_gasto
procesar_mensaje_gasto(ud, rows, update, creds_json, now, fail) ==
    IF "categoria" \notin DOMAIN ud
    THEN Outcome(ud, rows, <<reply_text(update.chat, "inicia_con_gasto")>>,
                 <<>>, "none")
    ELSE procesar_partes(ud, rows, update, creds_json, now, fail,
                         split1(strip(update.text), " "))

\* ---------------------------------------------------------- Application
\* Application.builder().token(TOKEN).build(): a Bot cannot be built without
\* a token, so the module fails to import and nothing is served
build(token) ==
    [built |-> token # None, initialized |-> FALSE, running |-> FALSE]

\* application.initialize(): a no-op when already initialized
initialize(app) ==
    [raised |-> "none", app |-> [app EXCEPT !.initialized = TRUE]]

\* application.start()
app_start(app) ==
    IF app.running THEN [raised |-> "RuntimeError", app |-> app]
    ELSE IF ~app.initialized THEN [raised |-> "RuntimeError", app |-> app]
    ELSE [raised |-> "none", app |-> [app EXCEPT !.running = TRUE]]

\* application.stop()
app_stop(app) ==
    IF ~app.running THEN [raised |-> "RuntimeError", app |-> app]
    ELSE [raised |-> "none", app |-> [app EXCEPT !.running = FALSE]]

\* application.shutdown(): a no-op when not initialized
shutdown(app) ==
    IF app.running THEN [raised |-> "RuntimeError", app |-> app]
    ELSE [raised |-> "none", app |-> [app EXCEPT !.initialized = FALSE]]

\* a message whose text starts with a bot command
IsCommand(text) == text # <<>> /\ Head(text) = "/"

CommandName(text) == split1(Tail(text), " ")[1]

\* the handler add_handler registered first among those that accept the update
Dispatch(update) ==
    IF update.type = "message" /\ update.text # <<>>
    THEN IF IsCommand(update.text)
         THEN IF CommandName(update.text) = <<"s", "t", "a", "r", "t">>
              THEN "start"
              ELSE IF CommandName(update.text) = <<"g", "a", "s", "t", "o">>
              THEN "nuevo_gasto"
              ELSE "none"
         ELSE "procesar_mensaje_gasto"
    ELSE IF update.type = "callback_query"
            /\ StartsWith(update.text, CallbackPrefix)
    THEN "seleccionar_categoria"
    ELSE "none"

\* the handler h applied to the update
handle_update(h, ud, rows, update, creds_json, now, fail) ==
    CASE h = "start" -> start(ud, rows, update)
      [] h = "nuevo_gasto" -> nuevo_gasto(ud, rows, update)
      [] h = "seleccionar_categoria" -> seleccionar_categoria(ud, rows, update)
      [] h = "procesar_mensaje_gasto" ->
             procesar_mensaje_gasto(ud, rows, update, creds_json, now, fail)
      [] OTHER -> Outcome(ud, rows, <<>>, <<>>, "none")

\* process_update once the handler has run: its writes to context.user_data
\* land in the dict of the update's effective user; the exception it raised
\* is logged, not re-raised
handled(uds, update, o) ==
    [raised |-> "none",
     user_data |-> [uds EXCEPT ![update.user] = o.user_data],
     sheet |-> o.sheet, sent |-> o.sent, gateway |-> o.gateway,
     logged |-> o.raised]

\* application.process_update(update)
process_update(app, uds, rows, update, creds_json, now, fail) ==
    IF ~app.initialized
    THEN [raised |-> "RuntimeError", user_data |-> uds, sheet |-> rows,
          sent |-> <<>>, gateway |-> <<>>, logged |-> "none"]
    ELSE handled(uds, update,
                 handle_update(Dispatch(update), uds[update.user], rows,
                               update, creds_json, now, fail))

\* ------------------------------------------------------------- webhook
\* what one POST / does: the response status, the application, the stores
Response(status, app, uds, rows, sent, gateway, logged, error) ==
    [status |-> status, app |-> app, user_data |-> uds, sheet |-> rows,
     sent |-> sent, gateway |-> gateway, logged |-> logged, error |-> error]

\* telegram_webhook from application.stop() on
webhook_stop(pu, sp) ==
    IF sp.raised # "none"
    THEN Response(500, sp.app, pu.user_data, pu.sheet, pu.sent, pu.gateway,
                  pu.logged, "stop")
    ELSE IF shutdown(sp.app).raised # "none"
    THEN Response(500, shutdown(sp.app).app, pu.user_data, pu.sheet, pu.sent,
                  pu.gateway, pu.logged, "shutdown")
    ELSE Response(204, shutdown(sp.app).app, pu.user_data, pu.sheet, pu.sent,
                  pu.gateway, pu.logged, "none")

\* telegram_webhook from application.process_update(update) on
webhook_process(st, pu) ==
    IF pu.raised # "none"
    THEN Response(500, st.app, pu.user_data, pu.sheet, pu.sent, pu.gateway,
                  pu.logged, "process_update")
    ELSE webhook_stop(pu, app_stop(st.app))

\* telegram_webhook from application.start() on
webhook_start(st, uds, rows, body, creds_json, now, fail) ==
    IF st.raised # "none"
    THEN Response(500, st.app, uds, rows, <<>>, <<>>, "none", "start")
    ELSE webhook_process(st, process_update(st.app, uds, rows, body,
                                            creds_json, now, fail))

\* the body of telegram_webhook
webhook_run(app, uds, rows, body, creds_json, now, fail) ==
    IF ~body.json
    THEN Response(400, app, uds, rows, <<>>, <<>>, "none", "none")
    ELSE IF ~body.valid
    THEN Response(500, app, uds, rows, <<>>, <<>>, "none", "de_json")
    ELSE IF initialize(app).raised # "none"
    THEN Response(500, initialize(app).app, uds, rows, <<>>, <<>>, "none",
                  "initialize")
    ELSE webhook_start(app_start(initialize(app).app), uds, rows, body,
                       creds_json, now, fail)

\* ------------------------------------------------------------- inputs
Users == {1, 2}

Group == 0 - 100

\* <<chat id, user id>>: each user's private chat, and one group they share
ChatUsers == {<<1, 1>>, <<2, 2>>, <<Group, 1>>}

K_foo == <<"f", "o", "o">>

CommandTexts ==
    { <<"/", "s", "t", "a", "r", "t">>, <<"/", "g", "a", "s", "t", "o">>,
      <<"/", "h", "e", "l", "p">> }

CallbackDatas ==
    { CallbackPrefix \o K_alimentacion, CallbackPrefix \o K_foo,
      <<"m", "e", "n", "u">> }

Texts ==
    { <<"3", "5", ".", "5", "0", " ", "a">>,
      <<"3", "5", ",", "5", "0", " ", "a">>,
      <<"1", "2", "0">>,
      <<"1", "2", "0", " ">>,
      <<"1", "2", "0", "\t", "a">>,
      <<"1", ",", "2", ",", "3">>,
      <<"1", ".", "2", ".", "3">>,
      <<"h", "o", "l", "a", " ", "a">> }

Nows == { [Y |-> 2025, M |-> 1, D |-> 2, h |-> 3, mi |-> 4, s |-> 5] }

\* a request body: whether it is JSON, whether Update.de_json accepts it,
\* and what the update carries (text is the message text or the callback data)
Body(json, valid, type, chat, user, text) ==
    [json |-> json, valid |-> valid, type |-> type, chat |-> chat,
     user |-> user, text |-> text]

NotJson == Body(FALSE, FALSE, "none", 0, 0, <<>>)

NotUpdate == Body(TRUE, FALSE, "none", 0, 0, <<>>)

CommandBodies ==
    {Body(TRUE, TRUE, "message", cu[1], cu[2], t) :
        cu \in ChatUsers, t \in CommandTexts}

CallbackQueryBodies ==
    {Body(TRUE, TRUE, "callback_query", cu[1], cu[2], d) :
        cu \in ChatUsers, d \in CallbackDatas}

TextBodies ==
    {Body(TRUE, TRUE, "message", cu[1], cu[2], t) : cu \in ChatUsers, t \in Texts}

OtherBodies == {Body(TRUE, TRUE, "photo", cu[1], cu[2], <<>>) : cu \in ChatUsers}

Now0 == CHOOSE n \in Nows : TRUE

\* a request of the event loop: the awaited call it is about to make, its
\* update, the calls on the application it has made, the running flag it
\* found when it called start, the application it found when it called
\* process_update, and, once it has returned, its status, the step that
\* raised and the application as it left it
Slots == 1..MaxRequests

Idle ==
    [pc |-> "idle", update |-> NotJson, steps |-> <<>>,
     start_found_running |-> FALSE, process_found |-> build(None),
     status |-> 0, error |-> "none", left |-> build(None)]

\* ---------------------------------------------------------------- state
Init ==
    /\ TOKEN \in {None, "token"}
    /\ GOOGLE_CREDENTIALS_JSON \in {None, "malformed", "service_account"}
    /\ application = build(TOKEN)
    /\ user_data = [u \in Users |-> EmptyDict]
    /\ sheet = <<>>
    /\ last = [update |-> NotJson, pre |-> user_data, rows |-> 0, status |-> 0,
               sent |-> <<>>, gateway |-> <<>>, logged |-> "none",
               error |-> "none"]
    /\ requests = [r \in Slots |-> Idle]

\* POST /: telegram_webhook with the request body, the clock and the outcome
\* of the Google Sheets calls as inputs
telegram_webhook(body, now, fail) ==
    \E r \in {webhook_run(application, user_data, sheet, body,
                          GOOGLE_CREDENTIALS_JSON, now, fail)} :
        /\ Len(r.sheet) <= MaxRows
        /\ application' = r.app
        /\ user_data' = r.user_data
        /\ sheet' = r.sheet
        /\ last' = [update |-> body, pre |-> user_data, rows |-> Len(sheet),
                    status |-> r.status, sent |-> r.sent,
                    gateway |-> r.gateway, logged |-> r.logged,
                    error |-> r.error]
        /\ UNCHANGED <<TOKEN, GOOGLE_CREDENTIALS_JSON, requests>>

\* a body that is not JSON
PostNotJson ==
    /\ application.built
    /\ telegram_webhook(NotJson, Now0, "none")

\* a JSON body that Update.de_json rejects
PostNotUpdate ==
    /\ application.built
    /\ telegram_webhook(NotUpdate, Now0, "none")

\* a message that starts with a bot command
PostCommand ==
    \E body \in CommandBodies :
        /\ application.built
        /\ telegram_webhook(body, Now0, "none")

\* a pressed inline button
PostCallbackQuery ==
    \E body \in CallbackQueryBodies :
        /\ application.built
        /\ telegram_webhook(body, Now0, "none")

\* a text message that is not a command
PostText ==
    \E body \in TextBodies, now \in Nows, fail \in Failures :
        /\ application.built
        /\ telegram_webhook(body, now, fail)

\* an update no handler accepts
PostOther ==
    \E body \in OtherBodies :
        /\ application.built
        /\ telegram_webhook(body, Now0, "none")

Next ==
    \/ PostNotJson
    \/ PostNotUpdate
    \/ PostCommand
    \/ PostCallbackQuery
    \/ PostText
    \/ PostOther

Spec == Init /\ [][Next]_vars

\* one conversation choosing among catalog categories: user 1 in their
\* private chat presses catalog buttons and sends amounts
CatalogCallbackBodies ==
    {Body(TRUE, TRUE, "callback_query", 1, 1, CallbackPrefix \o k) :
        k \in {K_alimentacion, K_transporte}}

AmountBodies ==
    {Body(TRUE, TRUE, "message", 1, 1, t) :
        t \in {<<"1", "2", "0">>, <<"3", "5", ".", "5", "0", " ", "a">>,
                <<"h", "o", "l", "a", " ", "a">>}}

\* a pressed button of the menu
PostCatalogButton ==
    \E body \in CatalogCallbackBodies :
        /\ application.built
        /\ telegram_webhook(body, Now0, "none")

\* a text message in that conversation
PostAmount ==
    \E body \in AmountBodies, fail \in Failures :
        /\ application.built
        /\ telegram_webhook(body, Now0, fail)

NextSeleccion ==
    \/ PostCatalogButton
    \/ PostAmount

SpecSeleccion == Init /\ [][NextSeleccion]_vars

\* -------------------------------------------------- concurrent requests
\* the updates of the concurrent requests
ConcurrentBodies ==
    { NotJson, NotUpdate,
      Body(TRUE, TRUE, "message", 1, 1, <<"/", "g", "a", "s", "t", "o">>),
      Body(TRUE, TRUE, "callback_query", 1, 1,
           CallbackPrefix \o K_alimentacion) }

\* return Response(status_code=status)
returned(rq, status, error, app) ==
    [rq EXCEPT !.pc = "done", !.status = status, !.error = error,
               !.left = app]

\* telegram_webhook up to Update.de_json
received(body, app) ==
    IF ~body.json
    THEN returned([Idle EXCEPT !.update = body], 400, "none", app)
    ELSE IF ~body.valid
    THEN returned([Idle EXCEPT !.update = body], 500, "de_json", app)
    ELSE [Idle EXCEPT !.update = body, !.pc = "initialize"]

\* one awaited call on the application: on an exception the except clause
\* returns 500 and the calls after it are not made
awaited(rq, step, res, next) ==
    IF res.raised # "none"
    THEN returned([rq EXCEPT !.steps = Append(@, step)], 500, step, res.app)
    ELSE IF next = "done"
    THEN returned([rq EXCEPT !.steps = Append(@, step)], 204, "none",
                  res.app)
    ELSE [rq EXCEPT !.steps = Append(@, step), !.pc = next]

\* a request arrives on a free slot: await request.json(), Update.de_json
Receive(r) ==
    \E body \in ConcurrentBodies :
        /\ application.built
        /\ requests[r].pc \in {"idle", "done"}
        /\ requests' = [requests EXCEPT ![r] = received(body, application)]
        /\ UNCHANGED <<TOKEN, GOOGLE_CREDENTIALS_JSON, application,
                       user_data, sheet, last>>

\* await application.initialize()
Initialize(r) ==
    /\ requests[r].pc = "initialize"
    /\ \E res \in {initialize(application)} :
           /\ application' = res.app
           /\ requests' =
                  [requests EXCEPT ![r] = awaited(@, "initialize", res, "start")]
           /\ UNCHANGED <<TOKEN, GOOGLE_CREDENTIALS_JSON, user_data, sheet,
                          last>>

\* await application.start()
Start(r) ==
    /\ requests[r].pc = "start"
    /\ \E res \in {app_start(application)} :
           /\ application' = res.app
           /\ requests' =
                  [requests EXCEPT ![r] =
                       awaited([@ EXCEPT !.start_found_running =
                                             application.running],
                               "start", res, "process_update")]
           /\ UNCHANGED <<TOKEN, GOOGLE_CREDENTIALS_JSON, user_data, sheet,
                          last>>

\* await application.process_update(update)
ProcessUpdate(r) ==
    /\ requests[r].pc = "process_update"
    /\ \E pu \in {process_update(application, user_data, sheet,
                                 requests[r].update, GOOGLE_CREDENTIALS_JSON,
                                 Now0, "none")} :
           /\ Len(pu.sheet) <= MaxRows
           /\ user_data' = pu.user_data
           /\ sheet' = pu.sheet
           /\ requests' =
                  [requests EXCEPT ![r] =
                       awaited([@ EXCEPT !.process_found = application],
                               "process_update",
                               [raised |-> pu.raised, app |-> application],
                               "stop")]
           /\ UNCHANGED <<TOKEN, GOOGLE_CREDENTIALS_JSON, application, last>>

\* await application.stop()
Stop(r) ==
    /\ requests[r].pc = "stop"
    /\ \E res \in {app_stop(application)} :
           /\ application' = res.app
           /\ requests' =
                  [requests EXCEPT ![r] = awaited(@, "stop", res, "shutdown")]
           /\ UNCHANGED <<TOKEN, GOOGLE_CREDENTIALS_JSON, user_data, sheet,
                          last>>

\* await application.shutdown(); return Response(status_code=204)
Shutdown(r) ==
    /\ requests[r].pc = "shutdown"
    /\ \E res \in {shutdown(application)} :
           /\ application' = res.app
           /\ requests' =
                  [requests EXCEPT ![r] = awaited(@, "shutdown", res, "done")]
           /\ UNCHANGED <<TOKEN, GOOGLE_CREDENTIALS_JSON, user_data, sheet,
                          last>>

NextConcurrente ==
    \/ \E r \in Slots : Receive(r)
    \/ \E r \in Slots : Initialize(r)
    \/ \E r \in Slots : Start(r)
    \/ \E r \in Slots : ProcessUpdate(r)
    \/ \E r \in Slots : Stop(r)
    \/ \E r \in Slots : Shutdown(r)

SpecConcurrente == Init /\ [][NextConcurrente]_vars

\* ------------------------------------------------------------ properties
\* the texts of the model whose first token is an amount, listed by hand
WellFormedTexts ==
    { <<"3", "5", ".", "5", "0", " ", "a">>,
      <<"3", "5", ",", "5", "0", " ", "a">>,
      <<"1", "2", "0">>,
      <<"1", "2", "0", " ">>,
      <<"1", "2", "0", "\t", "a">> }

MalformedTexts ==
    { <<"h", "o", "l", "a", " ", "a">>,
      <<"1", ",", "2", ",", "3">>,
      <<"1", ".", "2", ".", "3">> }

\* the last request was a text message that reached procesar_mensaje_gasto
TextHandled ==
    /\ last.status = 204
    /\ last.update.type = "message"
    /\ last.update.text \in WellFormedTexts \cup MalformedTexts

\* the last request was a category selection that reached seleccionar_categoria
SelectionHandled ==
    /\ last.status = 204
    /\ last.update.type = "callback_query"
    /\ StartsWith(last.update.text, CallbackPrefix)

\* the selected category a dict holds: {} when absent, {key} otherwise
Selected(ud) == {ud[k] : k \in DOMAIN ud \cap {"categoria"}}

\* the session of the user of the last request, before and after it
SessionBefore == Selected(last.pre[last.update.user])

SessionAfter == Selected(user_data[last.update.user])

CatalogKeys == {K_alimentacion, K_vivienda, K_transporte, K_salud,
                K_entretenimiento, K_ropa, K_otros}

\* the last request called the gateway and the gateway returned v
GatewayReturned(v) ==
    /\ Len(last.gateway) = 1
    /\ last.gateway[1].raised = "none"
    /\ last.gateway[1].value = v

Replied(template) ==
    /\ Len(last.sent) = 1
    /\ last.sent[1].method = "sendMessage"
    /\ last.sent[1].chat = last.update.chat
    /\ last.sent[1].template = template

\* C1: a well-formed text in AWAITING_AMOUNT whose append returns false is
\* answered with the storage-failure reply and leaves the selected category
\* in the session.
C1_FailureKeepsCategory ==
    ( /\ TextHandled
      /\ last.update.text \in WellFormedTexts
      /\ SessionBefore # {}
      /\ SessionBefore \subseteq CatalogKeys
      /\ GatewayReturned(FALSE) )
    => /\ Replied("error_al_guardar")
       /\ SessionAfter = SessionBefore

\* C2: a well-formed text on a session holding a selected category, with the
\* append returning true, is answered with the success reply carrying the
\* category's label, and the session is cleared.
C2_SuccessRepliesAndClears ==
    ( /\ TextHandled
      /\ last.update.text \in WellFormedTexts
      /\ SessionBefore # {}
      /\ GatewayReturned(TRUE) )
    => /\ Replied("gasto_registrado")
       /\ \A k \in SessionBefore \cap CatalogKeys :
              last.sent[1].categoria = CATEGORIAS_get(k).value
       /\ SessionAfter = {}

\* C3: a selection of a key outside the catalog leaves the session unchanged
\* and is answered with an error the user sees; no session ever holds a key
\* outside the catalog.
C3_UnknownKeyRejected ==
    /\ ( /\ SelectionHandled
         /\ split1(last.update.text, "_")[2] \notin CatalogKeys )
       => /\ user_data = last.pre
          /\ \E i \in 1..Len(last.sent) :
                 last.sent[i].method \in {"sendMessage", "editMessageText"}
    /\ \A u \in Users : Selected(user_data[u]) \subseteq CatalogKeys

\* C4: the gateway is called, and a row is written, only by a text message
\* whose user has a selected category and whose text parses; a text message
\* with no category selected calls no gateway, changes nothing and is
\* answered with the start-with-/gasto reply.
C4_GatewayOnlyForParsedSubmission ==
    /\ (last.gateway # <<>> \/ Len(sheet) # last.rows)
       => /\ TextHandled
          /\ last.update.text \in WellFormedTexts
          /\ SessionBefore # {}
    /\ (TextHandled /\ SessionBefore = {})
       => /\ last.gateway = <<>>
          /\ user_data = last.pre
          /\ Len(sheet) = last.rows
          /\ Replied("inicia_con_gasto")

C4_Witness ==
    /\ TextHandled
    /\ last.update.text \in WellFormedTexts
    /\ SessionBefore = {K_alimentacion}
    /\ Len(last.gateway) = 1
    /\ Len(sheet) = last.rows + 1

\* C5: in AWAITING_AMOUNT a text whose amount token does not parse gets the
\* format-error reply, calls no gateway and leaves the selected category.
C5_MalformedKeepsCategory ==
    ( /\ TextHandled
      /\ last.update.text \in MalformedTexts
      /\ SessionBefore # {} )
    => /\ Replied("error_de_formato")
       /\ last.gateway = <<>>
       /\ Len(sheet) = last.rows
       /\ user_data = last.pre

C5_Witness ==
    /\ TextHandled
    /\ last.update.text \in MalformedTexts
    /\ SessionBefore = {K_alimentacion}
    /\ Replied("error_de_formato")

\* C6: the appended row is [user id as string, timestamp, date, amount,
\* category, description] and its category is the display label of the
\* selected key.
C6_RowCategoryIsLabel ==
    (Len(sheet) = last.rows + 1 /\ SessionBefore \subseteq CatalogKeys)
    => LET row == sheet[Len(sheet)]
       IN  /\ Len(row) = 6
           /\ row[1] = str(last.update.user)
           /\ row[4] = last.gateway[1].monto
           /\ row[6] = last.gateway[1].descripcion
           /\ \A k \in SessionBefore : row[5] = CATEGORIAS_get(k).value

\* C7: the endpoint answers 2xx to every body that parses as JSON, 4xx only
\* to a body that does not, and never 5xx.
C7_WebhookAcknowledges ==
    last.status # 0
    => /\ last.update.json => last.status \in 200..299
       /\ ~last.update.json => last.status \in 400..499
       /\ last.status \notin 500..599

\* C8: guardar_gasto_en_sheets raises nothing; it returns False on every
\* failure to connect, authenticate, parse the credentials or write the row,
\* and True only when append_row completed.
C8_GatewayNeverRaises ==
    \A i \in 1..Len(last.gateway) :
        LET call == last.gateway[i]
        IN  /\ call.raised = "none"
            /\ call.value \in BOOLEAN
            /\ call.value <=> ( /\ GOOGLE_CREDENTIALS_JSON = "service_account"
                                /\ call.fail = "none" )
            /\ call.value <=> call.wrote
            /\ call.value => call.append_calls = 1

C8_Witness ==
    /\ Len(last.gateway) = 1
    /\ GOOGLE_CREDENTIALS_JSON = "service_account"
    /\ last.gateway[1].fail = "append_row"
    /\ last.gateway[1].value = FALSE

\* C9: with the bot token or the credential bundle absent the controller
\* still serves requests, and every append returns False with no write
\* attempted.
C9_MissingConfigurationFailsSoft ==
    (TOKEN = None \/ GOOGLE_CREDENTIALS_JSON = None)
    => /\ application.built
       /\ \A i \in 1..Len(last.gateway) :
              /\ last.gateway[i].value = FALSE
              /\ last.gateway[i].append_calls = 0
       /\ Len(sheet) = last.rows

\* C10: a request in one conversation leaves the session of every other
\* conversation as it was, also when the same user is in both (stated for
\* sessions that hold catalog keys).
C10_ConversationsDoNotInterfere ==
    ( /\ last.status = 204
      /\ \A u \in Users :
             Selected(user_data[u]) \cup Selected(last.pre[u])
                 \subseteq CatalogKeys )
    => \A cu \in ChatUsers :
           cu[1] # last.update.chat
           => Selected(user_data[cu[2]]) = Selected(last.pre[cu[2]])

\* the amount and the description of each well-formed text, read by hand:
\* the text is cut at its first run of whitespace, and a text with nothing
\* after the amount has the placeholder as its description
ExpectedMonto(text) ==
    IF Head(text) = "3" THEN [m |-> 355, e |-> 1] ELSE [m |-> 120, e |-> 0]

ExpectedDescripcion(text) ==
    IF text \in {<<"1", "2", "0">>, <<"1", "2", "0", " ">>}
    THEN SinDescripcion
    ELSE <<"a">>

\* C11: a text in AWAITING_AMOUNT is cut at its first run of whitespace into
\* an amount and an optional description; with no description the
\* placeholder is recorded, and no appended row has an empty description.
C11_SplitsOnWhitespaceRun ==
    /\ ( /\ TextHandled
         /\ last.update.text \in WellFormedTexts
         /\ SessionBefore # {} )
       => /\ Len(last.gateway) = 1
          /\ last.gateway[1].monto = ExpectedMonto(last.update.text)
          /\ last.gateway[1].descripcion
                 = ExpectedDescripcion(last.update.text)
    /\ \A i \in 1..Len(sheet) : sheet[i][6] # <<>>

\* the texts whose amount is written with a comma, and the same text with
\* the comma replaced by a dot, written out by hand
CommaTexts ==
    { <<"3", "5", ",", "5", "0", " ", "a">>, <<"1", ",", "2", ",", "3">> }

DotForm(text) ==
    IF text = <<"3", "5", ",", "5", "0", " ", "a">>
    THEN <<"3", "5", ".", "5", "0", " ", "a">>
    ELSE <<"1", ".", "2", ".", "3">>

\* the sheet before the last request
SheetBefore == SubSeq(sheet, 1, last.rows)

\* the outcome of the Google Sheets calls in the last request
FailOfLast ==
    IF last.gateway = <<>> THEN "none" ELSE last.gateway[1].fail

\* the last request left what the handler outcome o leaves
SameOutcome(o) ==
    /\ last.sent = o.sent
    /\ last.gateway = o.gateway
    /\ last.logged = o.raised
    /\ user_data[last.update.user] = o.user_data
    /\ sheet = o.sheet

\* C12: a text whose amount is written with a comma is handled exactly as
\* the same text with a dot is handled from the same state: the same amount
\* parsed, the same reply, the same row, the same session afterwards.
C12_CommaParsesAsDot ==
    (TextHandled /\ last.update.text \in CommaTexts)
    => SameOutcome(procesar_mensaje_gasto(
                       last.pre[last.update.user], SheetBefore,
                       [last.update EXCEPT !.text = DotForm(@)],
                       GOOGLE_CREDENTIALS_JSON, Now0, FailOfLast))

C12_Witness ==
    /\ TextHandled
    /\ last.update.text = <<"3", "5", ",", "5", "0", " ", "a">>
    /\ GatewayReturned(TRUE)
    /\ last.gateway[1].monto = [m |-> 355, e |-> 1]
    /\ Len(sheet) = last.rows + 1

\* the last request was the command with this text, and a handler ran
CommandHandled(text) ==
    /\ last.status = 204
    /\ last.update.type = "message"
    /\ last.update.text = text

\* C13: /start and /gasto leave every session as it was, whether or not a
\* category is selected, call no gateway and write no row; /start is
\* answered with the greeting and /gasto with the category prompt.
C13_CommandsLeaveSession ==
    /\ CommandHandled(<<"/", "s", "t", "a", "r", "t">>)
       => /\ user_data = last.pre
          /\ last.gateway = <<>>
          /\ Len(sheet) = last.rows
          /\ Replied("hola")
    /\ CommandHandled(<<"/", "g", "a", "s", "t", "o">>)
       => /\ user_data = last.pre
          /\ last.gateway = <<>>
          /\ Len(sheet) = last.rows
          /\ Replied("selecciona_categoria")
          /\ last.sent[1].reply_markup # <<>>

C13_Witness ==
    /\ CommandHandled(<<"/", "g", "a", "s", "t", "o">>)
    /\ SessionBefore = {K_alimentacion}
    /\ SessionAfter = {K_alimentacion}
    /\ Replied("selecciona_categoria")

\* the catalog keys in the order the catalog lists them, written by hand
CatalogOrder ==
    <<K_alimentacion, K_vivienda, K_transporte, K_salud, K_entretenimiento,
      K_ropa, K_otros>>

\* the positions <<row, column>> of the buttons of a keyboard
Positions(keyboard) ==
    {rc \in (1..Len(keyboard)) \X (1..2) : rc[2] <= Len(keyboard[rc[1]])}

\* the key the session holds after this button is pressed in a fresh session
PressedKey(button) ==
    Selected(seleccionar_categoria(
                 EmptyDict, <<>>,
                 Body(TRUE, TRUE, "callback_query", 1, 1,
                      button.callback_data)).user_data)

\* the menu sent by /gasto has the rows by hand 2, 2, 2, 1; read row by row
\* its buttons are the catalog entries in catalog order, each once, and
\* pressing a button selects the key of its own entry
MenuIsCatalog(keyboard) ==
    /\ [r \in 1..Len(keyboard) |-> Len(keyboard[r])] = <<2, 2, 2, 1>>
    /\ \A r \in 1..(Len(keyboard) - 1) : Len(keyboard[r]) = 2
    /\ \A i \in 1..Len(CatalogOrder) :
           /\ (i + 1) \div 2 \in 1..Len(keyboard)
           /\ ((i - 1) % 2) + 1 \in 1..Len(keyboard[(i + 1) \div 2])
           /\ PressedKey(keyboard[(i + 1) \div 2][((i - 1) % 2) + 1])
                  = {CatalogOrder[i]}
           /\ keyboard[(i + 1) \div 2][((i - 1) % 2) + 1].text
                  = CATEGORIAS_get(CatalogOrder[i]).value
           /\ Dispatch(Body(TRUE, TRUE, "callback_query", 1, 1,
                            keyboard[(i + 1) \div 2][((i - 1) % 2) + 1]
                                .callback_data))
                  = "seleccionar_categoria"
    /\ \A k \in CatalogKeys :
           Cardinality({rc \in Positions(keyboard) :
                           PressedKey(keyboard[rc[1]][rc[2]]) = {k}}) = 1
    /\ Cardinality(Positions(keyboard)) = Cardinality(CatalogKeys)

\* C14: the menu /gasto sends holds every catalog category exactly once, in
\* catalog order row by row, two to a row with a single entry only in the
\* last row (7 categories: 2, 2, 2, 1), and each button's callback data
\* selects that button's own category.
C14_MenuIsCatalog ==
    CommandHandled(<<"/", "g", "a", "s", "t", "o">>)
    => /\ Len(last.sent) = 1
       /\ MenuIsCatalog(last.sent[1].reply_markup)

C14_Witness ==
    /\ CommandHandled(<<"/", "g", "a", "s", "t", "o">>)
    /\ Len(last.sent) = 1
    /\ Len(last.sent[1].reply_markup) = 4
    /\ Len(last.sent[1].reply_markup[4]) = 1

\* the key carried by the callback data of the last request
SelectedKey == split1(last.update.text, "_")[2]

\* C15: selecting a catalog category leaves exactly that key in the session
\* whatever the session held (nothing, the same key, another key); no other
\* request puts a key in a session; a row is appended for the key the
\* session holds; and a session emptied by clear() holds nothing, also when
\* it is cleared or written to again.
C15_SelectionOverwrites ==
    /\ (SelectionHandled /\ SelectedKey \in CatalogKeys)
       => /\ user_data[last.update.user] = [categoria |-> SelectedKey]
          /\ \A u \in Users \ {last.update.user} :
                 user_data[u] = last.pre[u]
          /\ Len(sheet) = last.rows
    /\ (last.status # 0 /\ ~SelectionHandled)
       => \A u \in Users : Selected(user_data[u]) \subseteq Selected(last.pre[u])
    /\ Len(sheet) = last.rows + 1
       => /\ Cardinality(SessionBefore) = 1
          /\ \A k \in SessionBefore : last.gateway[1].categoria = k
    /\ ( /\ TextHandled
         /\ GatewayReturned(TRUE)
         /\ SessionBefore \subseteq CatalogKeys )
       => user_data[last.update.user] = EmptyDict
    /\ (TextHandled /\ SessionBefore = {})
       => user_data[last.update.user] = EmptyDict

C15_Witness ==
    /\ SelectionHandled
    /\ SessionBefore = {K_alimentacion}
    /\ SessionAfter = {K_transporte}

\* the call reached sheet.append_row: the credentials parsed and the
\* spreadsheet opened
Connected(call) ==
    GOOGLE_CREDENTIALS_JSON = "service_account" /\ call.fail # "open"

\* C16: a call of guardar_gasto_en_sheets calls append_row once when it has
\* the sheet and not at all when it has not, and never again after a
\* failure; a request calls the gateway at most once and adds at most one
\* row; a request that is not a well-formed text in AWAITING_AMOUNT calls no
\* gateway and adds no row.
C16_OneWriteAttempt ==
    /\ \A i \in 1..Len(last.gateway) :
           /\ last.gateway[i].append_calls
                  = (IF Connected(last.gateway[i]) THEN 1 ELSE 0)
           /\ last.gateway[i].wrote => last.gateway[i].append_calls = 1
    /\ Len(last.gateway) <= 1
    /\ Len(sheet) \in {last.rows, last.rows + 1}
    /\ Len(sheet) = last.rows + 1
       => Len(last.gateway) = 1 /\ last.gateway[1].wrote
    /\ ~( /\ TextHandled
          /\ last.update.text \in WellFormedTexts
          /\ SessionBefore # {} )
       => /\ last.gateway = <<>>
          /\ Len(sheet) = last.rows

C16_Witness ==
    /\ TextHandled
    /\ Len(last.gateway) = 1
    /\ last.gateway[1].append_calls = 1
    /\ ~last.gateway[1].wrote
    /\ Replied("error_al_guardar")
    /\ Len(sheet) = last.rows

\* the calls telegram_webhook makes on the application, in order
Lifecycle == <<"initialize", "start", "process_update", "stop", "shutdown">>

\* C17: a request that calls process_update has called initialize and start
\* before it and calls stop and shutdown after it, in that order; and every
\* request that entered the lifecycle, whether it returned 204 or an
\* awaited call raised, leaves the application stopped and shut down.
C17_LifecycleLeavesStopped ==
    \A r \in Slots :
        (requests[r].pc = "done" /\ requests[r].steps # <<>>)
        => /\ requests[r].steps
                  = SubSeq(Lifecycle, 1, Len(requests[r].steps))
           /\ requests[r].status = 204 => requests[r].steps = Lifecycle
           /\ ~requests[r].left.running
           /\ ~requests[r].left.initialized

\* C18: when requests interleave, no request calls start on an application
\* that is running, and every process_update runs on an application that
\* is initialized and running.
C18_RequestsDoNotOverlap ==
    \A r \in Slots :
        /\ Len(requests[r].steps) >= 2 => ~requests[r].start_found_running
        /\ Len(requests[r].steps) >= 3
           => /\ requests[r].process_found.initialized
              /\ requests[r].process_found.running

\* a further text message of the user of the last request, in the same chat
FurtherTexts ==
    {Body(TRUE, TRUE, "message", last.update.chat, last.update.user, t) :
        t \in Texts}

\* C19: after a text message for which the append returned true, no further
\* text message of that user appends a row until a category is selected
\* again, so one selection gives at most one row.
C19_OneRowPerSelection ==
    (TextHandled /\ GatewayReturned(TRUE))
    => \A body \in FurtherTexts, fail \in Failures :
           procesar_mensaje_gasto(user_data[last.update.user], sheet, body,
                                  GOOGLE_CREDENTIALS_JSON, Now0, fail).sheet
               = sheet

\* the replies of procesar_mensaje_gasto
TextReplies ==
    {"inicia_con_gasto", "error_de_formato", "gasto_registrado",
     "error_al_guardar"}

\* the messages the user sees among the Bot API calls of the last request
\* with this method
Shown(method) == {i \in 1..Len(last.sent) : last.sent[i].method = method}

\* C20: a handled text message is answered with exactly one of the four
\* replies, a handled category selection with exactly one edit of the
\* prompt, and no request changes a session or the sheet without a message
\* to the user.
C20_EveryEventIsAnswered ==
    /\ TextHandled
       => /\ Cardinality(Shown("sendMessage")) = 1
          /\ Shown("editMessageText") = {}
          /\ \A i \in Shown("sendMessage") :
                 last.sent[i].template \in TextReplies
    /\ SelectionHandled
       => /\ Cardinality(Shown("editMessageText")) = 1
          /\ Shown("sendMessage") = {}
    /\ (user_data # last.pre \/ Len(sheet) # last.rows)
       => Shown("sendMessage") \cup Shown("editMessageText") # {}

====
